---- MODULE Spec2Model ----
(***************************************************************************)
(* A model of watermarker: the layered configuration (cmd_args/mod.rs,     *)
(* cmd_args/config.rs), the batch loop and the per-file pipeline (main.rs),*)
(* and the numeric parts: Resolution::scaled_size in f32 arithmetic and    *)
(* the logo placement in i64 arithmetic.                                   *)
(***************************************************************************)
EXTENDS Integers, Sequences, FiniteSets, TLC

(***************************************************************************)
(* Machine arithmetic.  A u32 is kept as two 16-bit halves, because the    *)
(* values the code can produce (a wrapped product, a saturated cast) reach *)
(* 2^32 - 1.  An f32 is kept as a kind and, for a finite non-zero value,   *)
(* a 24-bit significand m (2^23 <= m < 2^24) and an exponent e, the value  *)
(* being m * 2^e.  Only non-negative values arise.  Every operation rounds *)
(* to nearest, ties to even, as IEEE 754 binary32 does.  The exponents     *)
(* that arise from u32 operands stay far inside the binary32 range, so     *)
(* neither overflow to infinity nor subnormals are modelled.               *)
(***************************************************************************)
U32Bits == 32

F32Prec == 24

Pow2(n) == 2 ^ n

HalfWord == Pow2(U32Bits \div 2)

ToU32(n) == [hi |-> n \div HalfWord, lo |-> n % HalfWord]

U32Zero == ToU32(0)

U32Max == [hi |-> HalfWord - 1, lo |-> HalfWord - 1]

\* a u32 below 2^31 as a number
U32Small(u) == u.hi < HalfWord \div 2

U32Val(u) == u.hi * HalfWord + u.lo

\* width * height on u32 operands (below 2^31 here): the wrapped product and
\* whether the true product left the u32 range
MulU32(a, b) ==
    LET a1 == a \div HalfWord
        a0 == a % HalfWord
        b1 == b \div HalfWord
        b0 == b % HalfWord
        p0 == (a0 % 256) * b0
        p1 == (a0 \div 256) * b0
        s  == p0 + (p1 % 256) * 256
        c  == (p1 \div 256) + (s \div HalfWord)
        m1 == a1 * b0
        m2 == a0 * b1
        h  == c + (m1 % HalfWord) + (m2 % HalfWord)
    IN  [val |-> [hi |-> h % HalfWord, lo |-> s % HalfWord],
         overflow |-> \/ a1 * b1 > 0
                      \/ (m1 \div HalfWord) + (m2 \div HalfWord) > 0
                      \/ h >= HalfWord]

F32Zero == [k |-> "zero", m |-> 0, e |-> 0]

F32Inf == [k |-> "inf", m |-> 0, e |-> 0]

F32NaN == [k |-> "nan", m |-> 0, e |-> 0]

Fin(m, e) == [k |-> "fin", m |-> m, e |-> e]

MantLo == Pow2(F32Prec - 1)

MantHi == Pow2(F32Prec)

\* round to nearest, ties to even: m is the truncated significand, g the
\* first dropped bit, st whether any later dropped bit is set
RoundF32(m, e, g, st) ==
    LET m1 == IF g = 1 /\ (st \/ m % 2 = 1) THEN m + 1 ELSE m
    IN  IF m1 = MantHi THEN Fin(MantLo, e + 1) ELSE Fin(m1, e)

RECURSIVE Norm(_, _)
\* an exactly representable positive integer n * 2^e, normalised
Norm(n, e) == IF n < MantLo THEN Norm(2 * n, e - 1) ELSE Fin(n, e)

RECURSIVE BitLen(_)
BitLen(n) == IF n = 0 THEN 0 ELSE 1 + BitLen(n \div 2)

\* `x as f32` for a u32 x
U32ToF32(u) ==
    IF u.hi = 0 /\ u.lo = 0 THEN F32Zero
    ELSE IF u.hi < Pow2(F32Prec - U32Bits \div 2)
         THEN Norm(U32Val(u), 0)
         ELSE LET s   == BitLen(u.hi) - (F32Prec - U32Bits \div 2)
                  m   == u.hi * Pow2(U32Bits \div 2 - s) + (u.lo \div Pow2(s))
                  rem == u.lo % Pow2(s)
              IN  RoundF32(m, s, rem \div Pow2(s - 1), rem % Pow2(s - 1) # 0)

RECURSIVE DivBits(_, _, _, _)
\* k more quotient bits of r / d by long division: <<quotient, remainder>>
DivBits(r, d, k, acc) ==
    IF k = 0 THEN <<acc, r>>
    ELSE IF r >= d THEN DivBits(2 * (r - d), d, k - 1, 2 * acc + 1)
         ELSE DivBits(2 * r, d, k - 1, 2 * acc)

\* a / b in f32
F32Div(a, b) ==
    IF a.k = "nan" \/ b.k = "nan" THEN F32NaN
    ELSE IF a.k = "zero" THEN (IF b.k = "zero" THEN F32NaN ELSE F32Zero)
    ELSE IF a.k = "inf" THEN (IF b.k = "inf" THEN F32NaN ELSE F32Inf)
    ELSE IF b.k = "zero" THEN F32Inf
    ELSE IF b.k = "inf" THEN F32Zero
    ELSE LET lt == a.m < b.m
             r0 == IF lt THEN 2 * a.m ELSE a.m
             e0 == IF lt THEN a.e - b.e - 1 ELSE a.e - b.e
             qr == DivBits(r0, b.m, F32Prec + 1, 0)
         IN  RoundF32(qr[1] \div 2, e0 - (F32Prec - 1), qr[1] % 2, qr[2] # 0)

RECURSIVE SqrtBits(_, _, _, _)
\* the integer square root of x * 4^(F32Prec \div 2 + 1), two bits of the
\* radicand at a time, k pairs left: <<root, remainder>>
SqrtBits(x, k, r, s) ==
    IF k = 0 THEN <<s, r>>
    ELSE LET half == F32Prec \div 2 + 1
             pair == IF k > half THEN (x \div Pow2(2 * (k - half - 1))) % 4 ELSE 0
             r1   == 4 * r + pair
             t    == 4 * s + 1
         IN  IF r1 >= t THEN SqrtBits(x, k - 1, r1 - t, 2 * s + 1)
             ELSE SqrtBits(x, k - 1, r1, 2 * s)

\* a.sqrt() in f32
F32Sqrt(a) ==
    IF a.k # "fin" THEN a
    ELSE LET odd  == a.e % 2 = 1
             x    == IF odd THEN 2 * a.m ELSE a.m
             e2   == (IF odd THEN a.e - 1 ELSE a.e) \div 2
             half == F32Prec \div 2 + 1
             sr   == SqrtBits(x, 2 * half, 0, 0)
             root == sr[1]
         IN  IF root >= 2 * MantHi
             THEN RoundF32(root \div 4, e2 - half + 2, (root \div 2) % 2,
                           root % 2 = 1 \/ sr[2] # 0)
             ELSE RoundF32(root \div 2, e2 - half + 1, root % 2, sr[2] # 0)

\* a * b in f32
F32Mul(a, b) ==
    IF a.k = "nan" \/ b.k = "nan" THEN F32NaN
    ELSE IF a.k = "inf" \/ b.k = "inf"
         THEN (IF a.k = "zero" \/ b.k = "zero" THEN F32NaN ELSE F32Inf)
    ELSE IF a.k = "zero" \/ b.k = "zero" THEN F32Zero
    ELSE LET hb  == Pow2(F32Prec \div 2)
             a1  == a.m \div hb
             a0  == a.m % hb
             b1  == b.m \div hb
             b0  == b.m % hb
             mid == a1 * b0 + a0 * b1
             l   == a0 * b0 + (mid % hb) * hb
             h   == a1 * b1 + (mid \div hb) + (l \div MantHi)
             lo  == l % MantHi
         IN  IF h >= MantLo
             THEN RoundF32(h, a.e + b.e + F32Prec, lo \div MantLo,
                           lo % MantLo # 0)
             ELSE RoundF32(2 * h + (lo \div MantLo), a.e + b.e + F32Prec - 1,
                           (lo \div (MantLo \div 2)) % 2,
                           lo % (MantLo \div 2) # 0)

\* a.round(): to the nearest integer, halves away from zero
F32Round(a) ==
    IF a.k # "fin" \/ a.e >= 0 THEN a
    ELSE IF a.e < -F32Prec THEN F32Zero
    ELSE Norm((a.m + Pow2(-a.e - 1)) \div Pow2(-a.e), 0)

\* `a as u32`: truncates, saturates, and sends NaN to 0
F32ToU32(a) ==
    IF a.k = "nan" \/ a.k = "zero" THEN U32Zero
    ELSE IF a.k = "inf" THEN U32Max
    ELSE IF a.e < -F32Prec THEN U32Zero
    ELSE IF a.e < 0 THEN ToU32(a.m \div Pow2(-a.e))
    ELSE IF a.e > U32Bits - F32Prec THEN U32Max
    ELSE [hi |-> a.m \div Pow2(U32Bits \div 2 - a.e),
          lo |-> (a.m % Pow2(U32Bits \div 2 - a.e)) * Pow2(a.e)]

(***************************************************************************)
(* Resolution (cmd_args/mod.rs).  width and height are u32; the values the *)
(* model draws are below 2^31 and kept as numbers.                         *)
(***************************************************************************)
Resolution(width, height) == [width |-> width, height |-> height]

Panic == [kind |-> "panic"]

Size(width, height) == [kind |-> "ok", width |-> width, height |-> height]

\* whether one of the two u32 products of scale_ratio leaves the u32 range:
\* with overflow checks compiled in (a debug build) the multiplication panics,
\* without them (a release build) it wraps
ScaleOverflows(self, width, height) ==
    \/ MulU32(self.width, self.height).overflow
    \/ MulU32(width, height).overflow

ScaleRatio(self, width, height) ==
    F32Sqrt(F32Div(U32ToF32(MulU32(self.width, self.height).val),
                   U32ToF32(MulU32(width, height).val)))

ScaledSize(self, width, height, checks) ==
    IF checks /\ ScaleOverflows(self, width, height) THEN Panic
    ELSE LET scale == ScaleRatio(self, width, height)
         IN  Size(F32ToU32(F32Round(F32Mul(U32ToF32(ToU32(width)), scale))),
                  F32ToU32(F32Round(F32Mul(U32ToF32(ToU32(height)), scale))))

(***************************************************************************)
(* Strings are sequences of one-character strings, so that to_lowercase,   *)
(* split and parse act on them as the code does.  An Option is a sequence  *)
(* of length at most one.                                                  *)
(***************************************************************************)
None == <<>>

Some(v) == <<v>>

IsSome(o) == Len(o) = 1

Unwrap(o) == o[1]

Last(s) == s[Len(s)]

UpperChars == <<"A", "B", "C", "D", "E", "F", "G", "H", "I", "J", "K", "L", "M",
                "N", "O", "P", "Q", "R", "S", "T", "U", "V", "W", "X", "Y", "Z">>

LowerChars == <<"a", "b", "c", "d", "e", "f", "g", "h", "i", "j", "k", "l", "m",
                "n", "o", "p", "q", "r", "s", "t", "u", "v", "w", "x", "y", "z">>

LowerChar(c) ==
    IF \E i \in 1..Len(UpperChars) : UpperChars[i] = c
    THEN LowerChars[CHOOSE i \in 1..Len(UpperChars) : UpperChars[i] = c]
    ELSE c

ToLowercase(s) == [i \in 1..Len(s) |-> LowerChar(s[i])]

RECURSIVE Split(_, _)
\* s.split(sep): the parts between the separators, at least one
Split(s, sep) ==
    IF \E i \in 1..Len(s) : s[i] = sep
    THEN LET i == CHOOSE k \in 1..Len(s) :
                      s[k] = sep /\ \A l \in 1..(k - 1) : s[l] # sep
         IN  <<SubSeq(s, 1, i - 1)>> \o Split(SubSeq(s, i + 1, Len(s)), sep)
    ELSE <<s>>

Digits == <<"0", "1", "2", "3", "4", "5", "6", "7", "8", "9">>

IsDigit(c) == \E i \in 1..Len(Digits) : Digits[i] = c

DigitVal(c) == (CHOOSE i \in 1..Len(Digits) : Digits[i] = c) - 1

RECURSIVE StripZeros(_)
StripZeros(s) == IF Len(s) > 1 /\ s[1] = "0" THEN StripZeros(Tail(s)) ELSE s

RECURSIVE DigitsLeq(_, _)
\* digit strings of one length, compared as numbers
DigitsLeq(a, b) ==
    IF a = <<>> THEN TRUE
    ELSE IF DigitVal(a[1]) # DigitVal(b[1]) THEN DigitVal(a[1]) < DigitVal(b[1])
    ELSE DigitsLeq(Tail(a), Tail(b))

RECURSIVE DigitsVal(_, _)
DigitsVal(s, acc) ==
    IF s = <<>> THEN acc ELSE DigitsVal(Tail(s), 10 * acc + DigitVal(s[1]))

U32MaxDigits == <<"4", "2", "9", "4", "9", "6", "7", "2", "9", "5">>

\* s.parse::<u32>(): an optional "+", then one or more digits, the value within
\* u32; None on any error
ParseU32(s) ==
    LET body == IF Len(s) > 1 /\ s[1] = "+" THEN Tail(s) ELSE s
        sig  == StripZeros(body)
    IN  IF body = <<>> \/ \E i \in 1..Len(body) : ~IsDigit(body[i]) THEN None
        ELSE IF Len(sig) > Len(U32MaxDigits) THEN None
        ELSE IF Len(sig) = Len(U32MaxDigits) /\ ~DigitsLeq(sig, U32MaxDigits)
             THEN None
        ELSE Some(DigitsVal(sig, 0))

\* impl FromStr for PresetResolution, then Into<Resolution>
PresetFromStr(s) ==
    LET l == ToLowercase(s)
    IN  IF l = <<"q", "v", "g", "a">> THEN Some(Resolution(320, 240))
        ELSE IF l = <<"v", "g", "a">> THEN Some(Resolution(640, 480))
        ELSE IF l = <<"s", "v", "g", "a">> THEN Some(Resolution(800, 600))
        ELSE IF l = <<"h", "d">> THEN Some(Resolution(1280, 720))
        ELSE IF l = <<"q", "u", "a", "d", "v", "g", "a">>
             THEN Some(Resolution(1280, 960))
        ELSE IF l = <<"f", "u", "l", "l", "h", "d">>
             THEN Some(Resolution(1920, 1080))
        ELSE None

Ok(v) == [ok |-> TRUE, val |-> v]

Err(what, token) == [ok |-> FALSE, what |-> what, token |-> token]

\* impl FromStr for Resolution: the error names the token its message prints
ResolutionFromStr(s) ==
    IF IsSome(PresetFromStr(s)) THEN Ok(Unwrap(PresetFromStr(s)))
    ELSE LET parts == Split(s, "x")
         IN  IF Len(parts) # 2 THEN Err("format", s)
             ELSE IF ~IsSome(ParseU32(parts[1])) THEN Err("width", parts[1])
             ELSE IF ~IsSome(ParseU32(parts[2])) THEN Err("height", parts[1])
             ELSE Ok(Resolution(Unwrap(ParseU32(parts[1])),
                                Unwrap(ParseU32(parts[2]))))

(***************************************************************************)
(* The program's state.                                                    *)
(*   argv            what the invocation gave, each optional parameter an  *)
(*                   Option (resolution still the string given)            *)
(*   home_config     whether a file exists at default_config_path()        *)
(*   cfg_file        the content of the configuration file, as key groups  *)
(*   overflow_checks whether the build panics on integer overflow          *)
(*   opts            the Options struct                                    *)
(*   pc, parsed, error, exit_code   where main is and how parse() ended    *)
(*   input_idx, entry_idx   the two loops of run                           *)
(*   disk            the files at the possible output paths                *)
(*   events          what proc_file did, one record per call               *)
(* and, for the pure functions taken alone,                                *)
(*   target, source, scaled      an application of scaled_size             *)
(*   anchor, bg, logo, placed    an application of the placement           *)
(*   res_str, res_parsed         an application of Resolution::from_str    *)
(***************************************************************************)
VARIABLES argv, home_config, cfg_file, overflow_checks, opts, pc, parsed,
          error, exit_code, input_idx, entry_idx, disk, events,
          target, source, scaled, anchor, bg, logo, placed,
          res_str, res_parsed

progVars == <<argv, home_config, cfg_file, overflow_checks, opts, pc, parsed,
              error, exit_code, input_idx, entry_idx, disk, events>>

scaleVars == <<target, source, scaled>>

placeVars == <<anchor, bg, logo, placed>>

parseVars == <<res_str, res_parsed>>

vars == <<progVars, scaleVars, placeVars, parseVars>>

(***************************************************************************)
(* The file system the program runs in.  A path is the sequence of its     *)
(* components.  Only the output files change during a run (disk).          *)
(***************************************************************************)
Dirs == {<<".">>, <<"out">>, <<"cfgout">>, <<"in">>, <<"d1">>, <<"d1", "sub">>,
         <<"d2">>, <<"cfgdir">>}

DefaultConfigPath == <<"~", ".config", "watermarker", "config.toml">>

Files == {<<"notdir">>, <<"logo.png">>, <<"cfglogo.png">>, <<"broken.png">>,
          <<"my.toml">>, <<"in", "a.jpg">>, <<"d1", "a.jpg">>, <<"d1", "n.txt">>,
          <<"d1", "sub", "c.jpeg">>, <<"d2", "b.JPG">>, <<"d2", "a.jpg">>}

IsDir(path) == path \in Dirs

IsFile(path) == path \in Files \/ (path = DefaultConfigPath /\ home_config)

Exists(path) == IsFile(path) \/ IsDir(path)

\* WalkDir::new(path): the directory, then its entries, depth first
WalkDir(path) ==
    IF path = <<"d1">>
    THEN <<<<"d1">>, <<"d1", "a.jpg">>, <<"d1", "n.txt">>, <<"d1", "sub">>,
           <<"d1", "sub", "c.jpeg">>>>
    ELSE IF path = <<"d2">>
    THEN <<<<"d2">>, <<"d2", "b.JPG">>, <<"d2", "a.jpg">>>>
    ELSE IF path = <<"d1", "sub">>
    THEN <<<<"d1", "sub">>, <<"d1", "sub", "c.jpeg">>>>
    ELSE IF IsDir(path) THEN <<path>>
    ELSE <<>>

\* Path::extension of a file name
Extension(name) ==
    IF name = "a.jpg" THEN Some(<<"j", "p", "g">>)
    ELSE IF name = "b.JPG" THEN Some(<<"J", "P", "G">>)
    ELSE IF name = "c.jpeg" THEN Some(<<"j", "p", "e", "g">>)
    ELSE IF name = "n.txt" THEN Some(<<"t", "x", "t">>)
    ELSE None

\* image::open(path): the decoded logo's <<width, height>>, or None
ImageOpen(path) ==
    IF path = <<"logo.png">> THEN Some(<<100, 50>>)
    ELSE IF path = <<"cfglogo.png">> THEN Some(<<3000, 2001>>)
    ELSE None

\* the <<width, height>> a JPEG input can decode to
JpegDims == {<<1920, 1080>>, <<641, 480>>}

Absent == [kind |-> "absent"]

Old == [kind |-> "old"]

Partial(from) == [kind |-> "partial", from |-> from]

Jpeg(from, size, xy) ==
    [kind |-> "jpeg", from |-> from, width |-> size.width,
     height |-> size.height, x |-> xy[1], y |-> xy[2]]

FileNames == {"a.jpg", "b.JPG", "c.jpeg"}

OutDirs == {<<".">>, <<"out">>, <<"cfgout">>}

OutPaths == {Append(d, n) : d \in OutDirs, n \in FileNames}

FileName(path) == Last(path)

Join(dir, name) == Append(dir, name)

(***************************************************************************)
(* Position, and the placement of the logo in proc_file (i64 arithmetic:   *)
(* no u32 operands can overflow it).                                       *)
(***************************************************************************)
Position == {"TopLeft", "TopRight", "BottomLeft", "BottomRight", "Center"}

\* serde's names of the positions (rename_all = "SCREAMING-KEBAB-CASE")
PositionFromToml(s) ==
    IF s = "TOP-LEFT" THEN Some("TopLeft")
    ELSE IF s = "TOP-RIGHT" THEN Some("TopRight")
    ELSE IF s = "BOTTOM-LEFT" THEN Some("BottomLeft")
    ELSE IF s = "BOTTOM-RIGHT" THEN Some("BottomRight")
    ELSE IF s = "CENTER" THEN Some("Center")
    ELSE None

\* a division that rounds toward minus infinity instead
I64DivFloor(a, b) == a \div b

\* Rust's integer division: the quotient truncated toward zero
I64Div(a, b) == IF a >= 0 THEN a \div b ELSE -((-a) \div b)

\* the <<x, y>> handed to overlay
LogoXY(position, width, height, logo_width, logo_height) ==
    LET right  == width - logo_width
        bottom == height - logo_height
    IN  IF position = "TopLeft" THEN <<0, 0>>
        ELSE IF position = "TopRight" THEN <<right, 0>>
        ELSE IF position = "BottomLeft" THEN <<0, bottom>>
        ELSE IF position = "BottomRight" THEN <<right, bottom>>
        ELSE <<I64Div(right, 2), I64Div(bottom, 2)>>

(***************************************************************************)
(* Options (cmd_args/mod.rs) and Config (cmd_args/config.rs).              *)
(***************************************************************************)
NoOptions ==
    [config_file |-> None, output_path |-> None, logo_file_path |-> None,
     logo_position |-> None, resolution |-> None, force |-> FALSE,
     show_options |-> FALSE, inputs |-> <<>>, logo_image |-> None]

\* the clap attribute default_value = "HD" of Options::resolution
DefaultResolutionArg == <<"H", "D">>

output_path(self) ==
    IF IsSome(self.output_path) THEN Unwrap(self.output_path) ELSE <<".">>

logo_file_path(self) == Unwrap(self.logo_file_path)

logo_image(self) == Unwrap(self.logo_image)

logo_position(self) ==
    IF IsSome(self.logo_position) THEN Unwrap(self.logo_position)
    ELSE "BottomRight"

resolution(self) ==
    IF IsSome(self.resolution) THEN Unwrap(self.resolution)
    ELSE Unwrap(PresetFromStr(<<"H", "D">>))

\* config::read: the Config deserialized from the file, or an error.  A field
\* declared Option<T> may be missing; OutputInfo::resolution is declared with
\* deserialize_with and no default, so serde reports it missing when the
\* output group lacks it.
ConfigRead(file) ==
    IF ~file.toml THEN Err("toml", <<>>)
    ELSE IF /\ IsSome(file.logo)
            /\ IsSome(Unwrap(file.logo).position)
            /\ ~IsSome(PositionFromToml(Unwrap(Unwrap(file.logo).position)))
         THEN Err("position", <<>>)
    ELSE IF IsSome(file.output) /\ ~IsSome(Unwrap(file.output).resolution)
         THEN Err("missing field", <<>>)
    ELSE IF /\ IsSome(file.output)
            /\ ~ResolutionFromStr(Unwrap(Unwrap(file.output).resolution)).ok
         THEN Err("resolution", Unwrap(Unwrap(file.output).resolution))
    ELSE Ok([logo |->
                IF IsSome(file.logo)
                THEN Some([file_path |-> Unwrap(file.logo).file_path,
                           position |->
                               IF IsSome(Unwrap(file.logo).position)
                               THEN PositionFromToml(
                                        Unwrap(Unwrap(file.logo).position))
                               ELSE None])
                ELSE None,
             output |->
                IF IsSome(file.output)
                THEN Some([resolution |->
                               Some(ResolutionFromStr(
                                   Unwrap(Unwrap(file.output).resolution)).val),
                           output_path |-> Unwrap(file.output).output_path])
                ELSE None])

\* Config's accessors
config_logo_file_path(config) ==
    IF IsSome(config.logo) THEN Unwrap(config.logo).file_path ELSE None

config_logo_position(config) ==
    IF IsSome(config.logo) THEN Unwrap(config.logo).position ELSE None

config_output_resolution(config) ==
    IF IsSome(config.output) THEN Unwrap(config.output).resolution ELSE None

config_output_path(config) ==
    IF IsSome(config.output) THEN Unwrap(config.output).output_path ELSE None

\* the opposite rule: the file's value replaces the command line's
ApplyFieldFileWins(own, from_file) ==
    IF IsSome(from_file) THEN from_file ELSE own

\* apply_config's rule for one field: the file's value is taken only where
\* the field is still None
ApplyField(own, from_file) ==
    IF ~IsSome(own) /\ IsSome(from_file) THEN from_file ELSE own

\* Options::apply_config: the Options after it, or its error
ApplyConfigResult(self) ==
    IF IsSome(self.config_file) /\ ~Exists(Unwrap(self.config_file))
    THEN Err("config is not exists", <<>>)
    ELSE LET path == IF IsSome(self.config_file) THEN Unwrap(self.config_file)
                     ELSE DefaultConfigPath
         IN  IF ~Exists(path) THEN Ok(self)
             ELSE IF ~IsFile(path) THEN Err("config is not file", <<>>)
             ELSE IF ~ConfigRead(cfg_file).ok
                  THEN Err("config read", ConfigRead(cfg_file).what)
             ELSE LET config == ConfigRead(cfg_file).val
                  IN  Ok([self EXCEPT
                          !.logo_file_path =
                              ApplyField(@, config_logo_file_path(config)),
                          !.logo_position =
                              ApplyField(@, config_logo_position(config)),
                          !.resolution =
                              ApplyField(@, config_output_resolution(config)),
                          !.output_path =
                              ApplyField(@, config_output_path(config))])

\* a validate that does not look at the input paths
InputsExistUnchecked(inputs) == TRUE

\* validate's loop over the input paths
InputsExist(inputs) ==
    \A k \in 1..Len(inputs) : IsFile(inputs[k]) \/ IsDir(inputs[k])

\* Options::validate: the Options after it, or its error
ValidateResult(self) ==
    IF IsSome(self.output_path) /\ ~IsDir(Unwrap(self.output_path))
    THEN Err("output path is not directory", Unwrap(self.output_path))
    ELSE IF ~IsSome(self.logo_file_path)
    THEN Err("logo file path is not specified", <<>>)
    ELSE IF ~IsFile(Unwrap(self.logo_file_path))
    THEN Err("logo file path is not file", Unwrap(self.logo_file_path))
    ELSE IF ~InputsExist(self.inputs)
    THEN Err("input path is not file or directory", <<>>)
    ELSE IF ~IsSome(ImageOpen(logo_file_path(self)))
    THEN Err("logo image", logo_file_path(self))
    ELSE Ok([self EXCEPT !.logo_image = ImageOpen(logo_file_path(self))])

(***************************************************************************)
(* main, parse and run, one action per step.                               *)
(***************************************************************************)
\* Options::parse(): clap builds the struct; a parameter that was not given
\* stays None, except resolution, which clap fills from its default_value;
\* a resolution that Resolution::from_str rejects is a usage error (exit 2)
ClapParse ==
    /\ pc = "start"
    /\ LET r == ResolutionFromStr(IF IsSome(argv.resolution)
                                  THEN Unwrap(argv.resolution)
                                  ELSE DefaultResolutionArg)
       IN  IF r.ok
           THEN /\ opts' = [config_file |-> argv.config_file,
                            output_path |-> argv.output_path,
                            logo_file_path |-> argv.logo_file_path,
                            logo_position |-> argv.logo_position,
                            resolution |-> Some(r.val),
                            force |-> argv.force,
                            show_options |-> argv.show_options,
                            inputs |-> argv.inputs,
                            logo_image |-> None]
                /\ pc' = "apply_config"
                /\ UNCHANGED exit_code
           ELSE /\ pc' = "exit"
                /\ exit_code' = Some(2)
                /\ UNCHANGED opts
    /\ UNCHANGED <<argv, home_config, cfg_file, overflow_checks, parsed, error,
                   input_idx, entry_idx, disk, events, scaleVars, placeVars, parseVars>>

\* parse(): opts.apply_config()?
ApplyConfig ==
    /\ pc = "apply_config"
    /\ LET r == ApplyConfigResult(opts)
       IN  IF r.ok
           THEN /\ opts' = r.val
                /\ pc' = "validate"
                /\ UNCHANGED <<parsed, error>>
           ELSE /\ parsed' = "err"
                /\ error' = Some(r.what)
                /\ pc' = "main"
                /\ UNCHANGED opts
    /\ UNCHANGED <<argv, home_config, cfg_file, overflow_checks, exit_code,
                   input_idx, entry_idx, disk, events, scaleVars, placeVars, parseVars>>

\* parse(): opts.validate()?; Ok(Arc::new(opts))
Validate ==
    /\ pc = "validate"
    /\ LET r == ValidateResult(opts)
       IN  IF r.ok
           THEN /\ opts' = r.val
                /\ parsed' = "ok"
                /\ UNCHANGED error
           ELSE /\ parsed' = "err"
                /\ error' = Some(r.what)
                /\ UNCHANGED opts
    /\ pc' = "main"
    /\ UNCHANGED <<argv, home_config, cfg_file, overflow_checks, exit_code,
                   input_idx, entry_idx, disk, events, scaleVars, placeVars, parseVars>>

\* main, once parse() has returned
Main ==
    /\ pc = "main"
    /\ IF parsed = "err"
       THEN /\ pc' = "exit"
            /\ exit_code' = Some(1)
            /\ UNCHANGED <<input_idx, entry_idx>>
       ELSE IF opts.show_options
       THEN /\ pc' = "exit"
            /\ exit_code' = Some(0)
            /\ UNCHANGED <<input_idx, entry_idx>>
       ELSE /\ pc' = "run"
            /\ input_idx' = 1
            /\ entry_idx' = 0
            /\ UNCHANGED exit_code
    /\ UNCHANGED <<argv, home_config, cfg_file, overflow_checks, opts, parsed,
                   error, disk, events, scaleVars, placeVars, parseVars>>

\* jpeg_files(path): the regular files of the walk whose extension is jpg or
\* jpeg in any case
IsJpeg(entry) ==
    /\ IsFile(entry)
    /\ IsSome(Extension(FileName(entry)))
    /\ ToLowercase(Unwrap(Extension(FileName(entry))))
           \in {<<"j", "p", "g">>, <<"j", "p", "e", "g">>}

jpeg_files(path) == SelectSeq(WalkDir(path), IsJpeg)

\* a proc_file that never skips
ShouldSkipNever(exists, force) == FALSE

\* proc_file's test before any work: output_path.exists() && !opts.is_force()
ShouldSkip(exists, force) == exists /\ ~force

\* a run that ignores proc_file's result
PropagatesNever(result) == FALSE

\* the ? on proc_file's result in run: an Err leaves run at once
Propagates(result) == result = "Err"

\* proc_file returned: run goes on with the next target, or returns the error
\* to main, which exits with 1
Returned(input_path, what, result, new_disk, next_input, next_entry) ==
    /\ events' = Append(events, [path |-> input_path, what |-> what])
    /\ disk' = new_disk
    /\ IF Propagates(result)
       THEN /\ pc' = "exit"
            /\ exit_code' = Some(1)
            /\ error' = Some(what)
            /\ UNCHANGED <<input_idx, entry_idx>>
       ELSE /\ input_idx' = next_input
            /\ entry_idx' = next_entry
            /\ UNCHANGED <<pc, exit_code, error>>

\* a panic inside proc_file unwinds through run and main
Panicked(input_path) ==
    /\ events' = Append(events, [path |-> input_path, what |-> "panic"])
    /\ pc' = "exit"
    /\ exit_code' = Some(101)
    /\ error' = Some("panic")
    /\ UNCHANGED <<disk, input_idx, entry_idx>>

\* proc_file(&opts, input_path), to its return
ProcFile(input_path, next_input, next_entry) ==
    LET out == Join(output_path(opts), FileName(input_path))
        Ret(what, result, new_disk) ==
            Returned(input_path, what, result, new_disk, next_input, next_entry)
    IN  IF ShouldSkip(disk[out] # Absent, opts.force)
        THEN Ret("skip", "Ok", disk)
        ELSE \E image \in {None} \cup {Some(d) : d \in JpegDims} :
             IF ~IsSome(image) THEN Ret("decode error", "Err", disk)
             ELSE LET size == ScaledSize(resolution(opts), Unwrap(image)[1],
                                         Unwrap(image)[2], overflow_checks)
                  IN  IF size.kind = "panic" THEN Panicked(input_path)
                      ELSE \E written \in {"resize error", "create error",
                                           "write error", "ok"} :
                           LET xy == LogoXY(logo_position(opts),
                                            U32Val(size.width),
                                            U32Val(size.height),
                                            logo_image(opts)[1],
                                            logo_image(opts)[2])
                           IN  IF written = "ok"
                               THEN Ret("ok", "Ok",
                                        [disk EXCEPT ![out] =
                                            Jpeg(input_path, size, xy)])
                               ELSE IF written = "write error"
                               THEN Ret(written, "Err",
                                        [disk EXCEPT ![out] =
                                            Partial(input_path)])
                               ELSE Ret(written, "Err", disk)

\* run: the input path is a file
RunFile ==
    /\ pc = "run"
    /\ input_idx <= Len(opts.inputs)
    /\ IsFile(opts.inputs[input_idx])
    /\ ProcFile(opts.inputs[input_idx], input_idx + 1, 0)
    /\ UNCHANGED <<argv, home_config, cfg_file, overflow_checks, opts, parsed,
                   scaleVars, placeVars, parseVars>>

\* run: the input path is a directory, and jpeg_files yields its next entry
RunDirEntry ==
    /\ pc = "run"
    /\ input_idx <= Len(opts.inputs)
    /\ ~IsFile(opts.inputs[input_idx])
    /\ IsDir(opts.inputs[input_idx])
    /\ entry_idx < Len(jpeg_files(opts.inputs[input_idx]))
    /\ ProcFile(jpeg_files(opts.inputs[input_idx])[entry_idx + 1],
                input_idx, entry_idx + 1)
    /\ UNCHANGED <<argv, home_config, cfg_file, overflow_checks, opts, parsed,
                   scaleVars, placeVars, parseVars>>

\* run: jpeg_files is exhausted (or the path is neither file nor directory):
\* the next input path
RunNextInput ==
    /\ pc = "run"
    /\ input_idx <= Len(opts.inputs)
    /\ ~IsFile(opts.inputs[input_idx])
    /\ IsDir(opts.inputs[input_idx]) =>
           entry_idx = Len(jpeg_files(opts.inputs[input_idx]))
    /\ input_idx' = input_idx + 1
    /\ entry_idx' = 0
    /\ UNCHANGED <<argv, home_config, cfg_file, overflow_checks, opts, pc,
                   parsed, error, exit_code, disk, events, scaleVars,
                   placeVars, parseVars>>

\* run: Ok(()), and main ends
RunReturn ==
    /\ pc = "run"
    /\ input_idx > Len(opts.inputs)
    /\ pc' = "exit"
    /\ exit_code' = Some(0)
    /\ UNCHANGED <<argv, home_config, cfg_file, overflow_checks, opts, parsed,
                   error, input_idx, entry_idx, disk, events, scaleVars,
                   placeVars, parseVars>>

Next ==
    \/ ClapParse
    \/ ApplyConfig
    \/ Validate
    \/ Main
    \/ RunFile
    \/ RunDirEntry
    \/ RunNextInput
    \/ RunReturn

(***************************************************************************)
(* Initial states.  Two ranges of invocations run the same program: Init   *)
(* varies the batch (input lists, overwrite flag, files already in the     *)
(* output directory) under one plain configuration; InitConfig varies the  *)
(* configuration (the invocation's parameters, the configuration file and  *)
(* where it is, the kinds of the paths named) over short input lists.      *)
(***************************************************************************)
MaxInputs == 2

BatchInputs == {<<"in", "a.jpg">>, <<"d1">>, <<"d2">>}

InputLists == UNION {[1..n -> BatchInputs] : n \in 1..MaxInputs}

EmptyFile == [toml |-> TRUE, logo |-> None, output |-> None]

MalformedFile == [toml |-> FALSE, logo |-> None, output |-> None]

LogoGroups ==
    {None} \cup
    {Some([file_path |-> f, position |-> q]) :
        f \in {None, Some(<<"cfglogo.png">>), Some(<<"nologo.png">>)},
        q \in {None, Some("TOP-LEFT")}}

OutputGroups ==
    {None} \cup
    {Some([resolution |-> r, output_path |-> o]) :
        r \in {None, Some(<<"v", "g", "a">>), Some(<<"a", "b", "c">>)},
        o \in {None, Some(<<"cfgout">>), Some(<<"notdir">>)}}

ConfigFiles ==
    {MalformedFile} \cup
    {[toml |-> TRUE, logo |-> l, output |-> o] :
        l \in LogoGroups, o \in OutputGroups}

\* the path apply_config reads, when it reads one
ConfigFileRead ==
    \/ argv.config_file = Some(<<"my.toml">>)
    \/ argv.config_file = None /\ home_config

InitProgram ==
    /\ opts = NoOptions
    /\ pc = "start"
    /\ parsed = "none"
    /\ error = None
    /\ exit_code = None
    /\ input_idx = 0
    /\ entry_idx = 0
    /\ events = <<>>
    /\ target = None
    /\ source = None
    /\ scaled = None
    /\ anchor = None
    /\ bg = None
    /\ logo = None
    /\ placed = None
    /\ res_str = <<>>
    /\ res_parsed = None

Init ==
    /\ argv \in [config_file : {None}, output_path : {Some(<<"out">>)},
                 logo_file_path : {Some(<<"logo.png">>)},
                 logo_position : {None}, resolution : {None},
                 force : BOOLEAN, show_options : {FALSE},
                 inputs : InputLists]
    /\ home_config = FALSE
    /\ cfg_file = EmptyFile
    /\ overflow_checks \in BOOLEAN
    /\ \E pre \in SUBSET {<<"out", "a.jpg">>, <<"out", "b.JPG">>} :
           disk = [p \in OutPaths |-> IF p \in pre THEN Old ELSE Absent]
    /\ InitProgram

InitConfig ==
    /\ argv \in [config_file : {None, Some(<<"my.toml">>), Some(<<"nocfg.toml">>),
                                Some(<<"cfgdir">>)},
                 output_path : {None, Some(<<"out">>)},
                 logo_file_path : {None, Some(<<"logo.png">>),
                                   Some(<<"broken.png">>)},
                 logo_position : {None, Some("Center")},
                 resolution : {None, Some(<<"Q", "V", "G", "A">>)},
                 force : {FALSE}, show_options : BOOLEAN,
                 inputs : {<<<<"in", "a.jpg">>>>, <<<<"d2">>>>,
                           <<<<"missing">>>>}]
    /\ home_config \in BOOLEAN
    /\ IsSome(argv.config_file) => ~home_config
    /\ cfg_file \in ConfigFiles
    /\ ~ConfigFileRead => cfg_file = EmptyFile
    /\ overflow_checks = FALSE
    /\ disk = [p \in OutPaths |-> Absent]
    /\ InitProgram

Spec == Init /\ [][Next]_vars

SpecConfig == InitConfig /\ [][Next]_vars

(***************************************************************************)
(* scaled_size taken alone: one call on a target resolution and a source   *)
(* size, in a build with or without overflow checks.                       *)
(***************************************************************************)
ScaleTargets ==
    {ResolutionFromStr(s).val :
        s \in {<<"q", "v", "g", "a">>, <<"v", "g", "a">>, <<"s", "v", "g", "a">>,
               <<"h", "d">>, <<"q", "u", "a", "d", "v", "g", "a">>,
               <<"f", "u", "l", "l", "h", "d">>,
               <<"1", "x", "1">>, <<"1", "0", "x", "1", "0">>,
               <<"6", "5", "5", "3", "6", "x", "6", "5", "5", "3", "6">>,
               <<"8", "0", "0", "0", "0", "x", "6", "0", "0", "0", "0">>}}

ScaleSources ==
    {0, 1, 100, 1000, 1920, 3840, 4000, 65535, 122880} \X
    {0, 1, 100, 1000, 1080, 2160, 3000, 65535, 69120}

InitOff ==
    /\ argv = NoOptions
    /\ home_config = FALSE
    /\ cfg_file = EmptyFile
    /\ opts = NoOptions
    /\ pc = "off"
    /\ parsed = "none"
    /\ error = None
    /\ exit_code = None
    /\ input_idx = 0
    /\ entry_idx = 0
    /\ disk = [p \in OutPaths |-> Absent]
    /\ events = <<>>

InitScale ==
    /\ InitOff
    /\ overflow_checks \in BOOLEAN
    /\ target \in ScaleTargets
    /\ source \in ScaleSources
    /\ scaled = None
    /\ anchor = None
    /\ bg = None
    /\ logo = None
    /\ placed = None
    /\ res_str = <<>>
    /\ res_parsed = None

CallScaledSize ==
    /\ scaled = None
    /\ scaled' = Some(ScaledSize(target, source[1], source[2], overflow_checks))
    /\ UNCHANGED <<progVars, target, source, placeVars, parseVars>>

NextScale == CallScaledSize

SpecScale == InitScale /\ [][NextScale]_vars

(***************************************************************************)
(* The placement taken alone: one anchor, one resized background, one logo.*)
(***************************************************************************)
MaxDim == 3

PlaceDims == (1..MaxDim) \cup {50, 100, 720, 1280}

InitPlace ==
    /\ InitOff
    /\ overflow_checks = FALSE
    /\ target = None
    /\ source = None
    /\ scaled = None
    /\ anchor \in Position
    /\ bg \in PlaceDims \X PlaceDims
    /\ logo \in PlaceDims \X PlaceDims
    /\ placed = None
    /\ res_str = <<>>
    /\ res_parsed = None

PlaceLogo ==
    /\ placed = None
    /\ placed' = Some(LogoXY(anchor, bg[1], bg[2], logo[1], logo[2]))
    /\ UNCHANGED <<progVars, scaleVars, anchor, bg, logo, parseVars>>

NextPlace == PlaceLogo

SpecPlace == InitPlace /\ [][NextPlace]_vars

(***************************************************************************)
(* Resolution::from_str taken alone: one call on a string, every string of *)
(* up to MaxStrLen characters of a small alphabet and some longer ones.    *)
(***************************************************************************)
MaxStrLen == 4

ResChars == {"0", "1", "x", "+", "h", "d", "H", "a"}

ResStrings ==
    UNION {[1..n -> ResChars] : n \in 0..MaxStrLen} \cup
    {<<"Q", "v", "G", "a">>, <<"V", "G", "A">>, <<"s", "v", "g", "a">>,
     <<"Q", "u", "a", "d", "V", "G", "A">>, <<"F", "u", "l", "l", "H", "D">>,
     <<"0", "x", "4", "8", "0">>, <<"6", "4", "0", "x", "4", "8", "0">>,
     <<"6", "4", "0", "X", "4", "8", "0">>, <<"1", "2", "8", "0", "x">>,
     <<"1", "2", "8", "0", "x", "a", "b", "c">>, <<"a", "b", "c">>,
     <<"a", "b", "c", "x", "7", "2", "0">>,
     <<"4", "2", "9", "4", "9", "6", "7", "2", "9", "6", "x", "1">>,
     <<"1", "x", "4", "2", "9", "4", "9", "6", "7", "2", "9", "6">>,
     <<"6", "4", "0", "x", "4", "8", "0", "x", "1">>}

InitParse ==
    /\ InitOff
    /\ overflow_checks = FALSE
    /\ target = None
    /\ source = None
    /\ scaled = None
    /\ anchor = None
    /\ bg = None
    /\ logo = None
    /\ placed = None
    /\ res_str \in ResStrings
    /\ res_parsed = None

CallFromStr ==
    /\ res_parsed = None
    /\ res_parsed' = Some(ResolutionFromStr(res_str))
    /\ UNCHANGED <<progVars, scaleVars, placeVars, res_str>>

NextParse == CallFromStr

SpecParse == InitParse /\ [][NextParse]_vars

(***************************************************************************)
(* What the claims speak of.                                               *)
(***************************************************************************)
RECURSIVE Expansion(_)
\* the targets of a list of input paths, in the order run reaches them
Expansion(inputs) ==
    IF inputs = <<>> THEN <<>>
    ELSE (IF IsFile(Head(inputs)) THEN <<Head(inputs)>>
          ELSE IF IsDir(Head(inputs)) THEN jpeg_files(Head(inputs))
          ELSE <<>>) \o Expansion(Tail(inputs))

IsFailure(ev) ==
    ev.what \in {"decode error", "resize error", "create error", "write error"}

\* the flat output path of a target
FlatPath(path) == Append(output_path(opts), Last(path))

FirstDefined(a, b, c) == IF IsSome(a) THEN a ELSE IF IsSome(b) THEN b ELSE c

\* the layer the configuration file contributes: its fields when
\* apply_config reads it, nothing otherwise
FileLogoPath ==
    IF ConfigFileRead /\ IsSome(cfg_file.logo)
    THEN Unwrap(cfg_file.logo).file_path ELSE None

FilePosition ==
    IF /\ ConfigFileRead
       /\ IsSome(cfg_file.logo)
       /\ IsSome(Unwrap(cfg_file.logo).position)
    THEN PositionFromToml(Unwrap(Unwrap(cfg_file.logo).position)) ELSE None

FileOutputPath ==
    IF ConfigFileRead /\ IsSome(cfg_file.output)
    THEN Unwrap(cfg_file.output).output_path ELSE None

FileResolution ==
    IF /\ ConfigFileRead
       /\ IsSome(cfg_file.output)
       /\ IsSome(Unwrap(cfg_file.output).resolution)
       /\ ResolutionFromStr(Unwrap(Unwrap(cfg_file.output).resolution)).ok
    THEN Some(ResolutionFromStr(Unwrap(Unwrap(cfg_file.output).resolution)).val)
    ELSE None

CliResolution ==
    IF IsSome(argv.resolution) /\ ResolutionFromStr(Unwrap(argv.resolution)).ok
    THEN Some(ResolutionFromStr(Unwrap(argv.resolution)).val) ELSE None

\* C1: fail-fast batch.  The targets are taken in the expansion order of the
\* input list; a failure of proc_file (decode, resize, create or write) is the
\* last thing the run does: the run has ended with exit code 1 and that
\* error, no later target has been touched, and the output of every target
\* written before it is still there (holding that target's image unless a
\* later target of the same name wrote over it).
C1_FailFast ==
    LET all == Expansion(opts.inputs)
        n   == Len(events)
    IN  /\ n <= Len(all)
        /\ \A k \in 1..n : events[k].path = all[k]
        /\ \A k \in 1..n : IsFailure(events[k]) =>
              /\ k = n
              /\ pc = "exit"
              /\ exit_code = Some(1)
              /\ error = Some(events[k].what)
              /\ \A j \in 1..(k - 1) : events[j].what = "ok" =>
                    /\ disk[FlatPath(events[j].path)].kind \in {"jpeg", "partial"}
                    /\ \/ /\ disk[FlatPath(events[j].path)].kind = "jpeg"
                          /\ disk[FlatPath(events[j].path)].from = events[j].path
                       \/ \E l \in (j + 1)..n :
                             /\ Last(events[l].path) = Last(events[j].path)
                             /\ events[l].what \in {"ok", "write error"}

\* C1's case: a target was written, a later one failed, and targets remain
C1_Witness ==
    /\ Len(events) >= 2
    /\ Len(events) < Len(Expansion(opts.inputs))
    /\ events[1].what = "ok"
    /\ IsFailure(events[Len(events)])
    /\ disk[FlatPath(events[1].path)].kind = "jpeg"
    /\ disk[FlatPath(events[1].path)].from = events[1].path

\* one call of proc_file, seen as a step
C2_Step ==
    (pc = "run" /\ Len(events') = Len(events) + 1) =>
        LET ev  == events'[Len(events')]
            out == Append(output_path(opts), Last(ev.path))
        IN  /\ \A p \in OutPaths \ {out} : disk'[p] = disk[p]
            /\ (disk[out] # Absent /\ ~argv.force) =>
                  /\ ev.what = "skip"
                  /\ disk' = disk
                  /\ pc' = "run"
                  /\ exit_code' = None
                  /\ error' = None
            /\ ev.what = "skip" => (disk[out] # Absent /\ ~argv.force)
            /\ (disk[out] # Absent /\ argv.force /\ ev.what = "ok") =>
                  /\ disk'[out].kind = "jpeg"
                  /\ disk'[out].from = ev.path

\* C2: skip-if-exists.  A call of proc_file touches only the output directory
\* joined with the target's file name; if a file is there (from before the
\* run or from an earlier target of the same name) and overwrite is off, the
\* call is a skip: no file changes, no error, the run goes on; a skip happens
\* in no other case; with overwrite on, a target that is processed to the
\* end replaces the file.
C2_SkipIfExists == [][C2_Step]_vars

\* C2's case: a target skipped because an earlier target of the same name,
\* from another directory, wrote the file in this run, and the run went on
C2_Witness ==
    \E j, k \in 1..Len(events) :
        /\ j < k
        /\ k < Len(events)
        /\ events[j].what = "ok"
        /\ events[k].what = "skip"
        /\ events[j].path # events[k].path
        /\ Last(events[j].path) = Last(events[k].path)
        /\ disk[FlatPath(events[k].path)].kind = "jpeg"
        /\ disk[FlatPath(events[k].path)].from = events[j].path

\* C3: once parse() has returned the settings, the anchor, the logo path and
\* the output directory are each the first defined of the invocation's
\* value, the file's value and the built-in default (BottomRight, none, ".").
C3_Precedence ==
    parsed = "ok" =>
        /\ Some(logo_position(opts)) =
               FirstDefined(argv.logo_position, FilePosition, Some("BottomRight"))
        /\ opts.logo_file_path =
               FirstDefined(argv.logo_file_path, FileLogoPath, None)
        /\ Some(output_path(opts)) =
               FirstDefined(argv.output_path, FileOutputPath, Some(<<".">>))
        /\ (argv.logo_position = Some("Center") /\ FilePosition = Some("TopLeft"))
               => logo_position(opts) = "Center"
        /\ (argv.logo_position = None /\ FilePosition = Some("TopLeft"))
               => logo_position(opts) = "TopLeft"
        /\ (argv.logo_position = None /\ FilePosition = None)
               => logo_position(opts) = "BottomRight"

\* C3's case: the invocation and the file both give an anchor and a logo path
C3_Witness ==
    /\ parsed = "ok"
    /\ argv.logo_position = Some("Center")
    /\ FilePosition = Some("TopLeft")
    /\ argv.logo_file_path = Some(<<"logo.png">>)
    /\ FileLogoPath = Some(<<"cfglogo.png">>)
    /\ argv.output_path = None
    /\ FileOutputPath = Some(<<"cfgout">>)

\* C4: once parse() has returned the settings, the resolution is the first
\* defined of the invocation's value, the file's value and HD.
C4_ResolutionPrecedence ==
    parsed = "ok" =>
        Some(resolution(opts)) =
            FirstDefined(CliResolution, FileResolution,
                         Some(Resolution(1280, 720)))

\* a file whose syntax is right and whose defined fields are valid
WellFormed(file) ==
    /\ file.toml
    /\ (IsSome(file.logo) /\ IsSome(Unwrap(file.logo).position)) =>
           IsSome(PositionFromToml(Unwrap(Unwrap(file.logo).position)))
    /\ (IsSome(file.output) /\ IsSome(Unwrap(file.output).resolution)) =>
           ResolutionFromStr(Unwrap(Unwrap(file.output).resolution)).ok

\* C5: a configuration file that is well formed, whichever of its fields it
\* omits, is read without error, and what it defines of the logo path, the
\* anchor and the output directory is applied where the invocation gave
\* nothing (the resolution's precedence is C4's).
C5_OptionalFields ==
    (ConfigFileRead /\ WellFormed(cfg_file)) =>
        /\ error # Some("config read")
        /\ parsed = "ok" =>
              /\ Some(logo_position(opts)) =
                     FirstDefined(argv.logo_position, FilePosition,
                                  Some("BottomRight"))
              /\ opts.logo_file_path =
                     FirstDefined(argv.logo_file_path, FileLogoPath, None)
              /\ Some(output_path(opts)) =
                     FirstDefined(argv.output_path, FileOutputPath,
                                  Some(<<".">>))

\* C6: parse() returns the settings only with an output directory that is a
\* directory, a logo path that is defined, is a file and decodes (the image
\* stored in the settings) and input paths that all exist; when parse()
\* returns an error, main exits with 1, and nothing is decoded or written
\* unless parse() returned the settings.
C6_ValidationGates ==
    /\ parsed = "ok" =>
          /\ IsDir(output_path(opts))
          /\ IsSome(opts.logo_file_path)
          /\ IsFile(Unwrap(opts.logo_file_path))
          /\ IsSome(ImageOpen(Unwrap(opts.logo_file_path)))
          /\ opts.logo_image = ImageOpen(Unwrap(opts.logo_file_path))
          /\ \A k \in 1..Len(opts.inputs) :
                 opts.inputs[k] \in Files \cup Dirs
    /\ parsed = "err" =>
          /\ pc \in {"main", "exit"}
          /\ IsSome(error)
          /\ pc = "exit" => exit_code = Some(1)
    /\ parsed # "ok" =>
          /\ events = <<>>
          /\ \A p \in OutPaths : disk[p] \in {Absent, Old}

\* C6's case: validation reached the input paths and failed there, and the
\* program has exited
C6_Witness ==
    /\ parsed = "err"
    /\ error = Some("input path is not file or directory")
    /\ pc = "exit"
    /\ exit_code = Some(1)
    /\ events = <<>>

RECURSIVE Gcd(_, _)
Gcd(a, b) == IF b = 0 THEN a ELSE Gcd(b, a % b)

\* w * th = h * tw, for positive numbers, without forming the products
SameAspect(w, h, tw, th) ==
    /\ w \div Gcd(w, h) = tw \div Gcd(tw, th)
    /\ h \div Gcd(w, h) = th \div Gcd(tw, th)

\* a u32 result within 1 of a number
Within1(u, n) == U32Small(u) /\ U32Val(u) - n \in {-1, 0, 1}

\* C7: for a positive source of the target's aspect ratio, scaled_size
\* returns the target's width and height to within 1 px each (the ratio taken
\* from the true products of the dimensions).
C7_SameAspect ==
    (/\ IsSome(scaled)
     /\ source[1] > 0 /\ source[2] > 0
     /\ target.width > 0 /\ target.height > 0
     /\ SameAspect(source[1], source[2], target.width, target.height)) =>
        /\ Unwrap(scaled).kind = "ok"
        /\ Within1(Unwrap(scaled).width, target.width)
        /\ Within1(Unwrap(scaled).height, target.height)

\* C8: for a positive target and a positive source, both dimensions that
\* scaled_size returns are at least 1 (stated on the inputs whose two
\* products stay within u32; the others are C7's).
C8_NoZeroDimension ==
    (/\ IsSome(scaled)
     /\ source[1] > 0 /\ source[2] > 0
     /\ target.width > 0 /\ target.height > 0
     /\ ~MulU32(target.width, target.height).overflow
     /\ ~MulU32(source[1], source[2]).overflow) =>
        /\ Unwrap(scaled).kind = "ok"
        /\ Unwrap(scaled).width # U32Zero
        /\ Unwrap(scaled).height # U32Zero

\* C9: for a source of width 0 or height 0, scaled_size returns no
\* <<width, height>> pair.
C9_DegenerateRejected ==
    (IsSome(scaled) /\ (source[1] = 0 \/ source[2] = 0)) =>
        Unwrap(scaled).kind # "ok"

\* q is d / 2 truncated toward zero
IsHalfTowardZero(q, d) ==
    /\ d >= 0 => (2 * q <= d /\ d <= 2 * q + 1)
    /\ d < 0 => (d <= 2 * q /\ 2 * q - 1 <= d)

\* C10: the overlay coordinates are (0, 0) for TopLeft, (bw - lw, 0) for
\* TopRight, (0, bh - lh) for BottomLeft, (bw - lw, bh - lh) for BottomRight
\* and the halves of the two differences, truncated toward zero, for Center,
\* also when the logo is the larger; 1280x720 under a 100x50 logo gives
\* (1180, 670) for BottomRight and (590, 335) for Center.
C10_Placement ==
    IsSome(placed) =>
        LET x == Unwrap(placed)[1]
            y == Unwrap(placed)[2]
            dx == bg[1] - logo[1]
            dy == bg[2] - logo[2]
        IN  /\ anchor = "TopLeft" => (x = 0 /\ y = 0)
            /\ anchor = "TopRight" => (x = dx /\ y = 0)
            /\ anchor = "BottomLeft" => (x = 0 /\ y = dy)
            /\ anchor = "BottomRight" => (x = dx /\ y = dy)
            /\ anchor = "Center" =>
                   (IsHalfTowardZero(x, dx) /\ IsHalfTowardZero(y, dy))
            /\ (bg = <<1280, 720>> /\ logo = <<100, 50>>) =>
                  /\ anchor = "BottomRight" => (x = 1180 /\ y = 670)
                  /\ anchor = "Center" => (x = 590 /\ y = 335)

\* C10's case: a centred logo wider than the background by an odd number of
\* pixels, placed at a negative x
C10_Witness ==
    /\ IsSome(placed)
    /\ anchor = "Center"
    /\ bg[1] < logo[1]
    /\ (logo[1] - bg[1]) % 2 = 1
    /\ Unwrap(placed)[1] < 0

\* C11: every Resolution that Resolution::from_str produces, from a preset
\* name in any case or from a "<width>x<height>" literal, has width > 0 and
\* height > 0; the literal "0x480" is rejected.
C11_PositiveResolution ==
    IsSome(res_parsed) =>
        /\ Unwrap(res_parsed).ok =>
               /\ Unwrap(res_parsed).val.width > 0
               /\ Unwrap(res_parsed).val.height > 0
        /\ res_str = <<"0", "x", "4", "8", "0">> => ~Unwrap(res_parsed).ok

\* tok occurs in msg
Contains(msg, tok) ==
    \E i \in 0..(Len(msg) - Len(tok)) : SubSeq(msg, i + 1, i + Len(tok)) = tok

\* C12: a string that is no preset name and is not two u32 literals around
\* one "x" is answered with an error, and the token the error message prints
\* (the rest of the message is fixed text with none of these characters)
\* holds the token that failed: the whole string when there are not exactly
\* two parts, the width literal when the width does not parse, the height
\* literal when the height does not parse.
C12_ErrorNamesToken ==
    (IsSome(res_parsed) /\ ~IsSome(PresetFromStr(res_str))) =>
        LET r     == Unwrap(res_parsed)
            parts == Split(res_str, "x")
        IN  /\ Len(parts) # 2 =>
                   (~r.ok /\ Contains(r.token, res_str))
            /\ (Len(parts) = 2 /\ ~IsSome(ParseU32(parts[1]))) =>
                   (~r.ok /\ Contains(r.token, parts[1]))
            /\ (/\ Len(parts) = 2
                /\ IsSome(ParseU32(parts[1]))
                /\ ~IsSome(ParseU32(parts[2]))) =>
                   (~r.ok /\ Contains(r.token, parts[2]))

====
